---- MODULE Spec2Model ----
(***************************************************************************)
(* UWeather (main.py): a launcher extension that resolves a location (IP   *)
(* geolocation chain, static city or typed city), fetches the weather from *)
(* Open-Meteo, caches the result for CACHE_TTL seconds in memory and in    *)
(* cache_weather.json, and renders it under an interface mode.             *)
(*                                                                         *)
(* JSON values that the code tests with `or` / `is None` are tagged:       *)
(* Null (absent key or None), Num(n), Str(s).  A JSON object is a TLA+     *)
(* function from key names to values, read with Get / GetD like dict.get.  *)
(* Temperatures are integers in tenths of a degree Celsius; timestamps are *)
(* integers in seconds.                                                    *)
(***************************************************************************)
EXTENDS Integers, Sequences, FiniteSets, TLC

VARIABLES
    preferences,  \* extension.preferences: the six preference values
    cache,        \* extension.cache: key -> entry
    file,         \* content of cache_weather.json
    now,          \* time.time()
    bg,           \* background update_auto_location threads not yet finished
    changes,      \* how many times a preference was changed
    last,         \* the most recent operation and, for a request, what it did
    call          \* most recent direct call of a pure function (SpecFn)

vars == <<preferences, cache, file, now, bg, changes, last, call>>

----------------------------------------------------------------------------
(* Bounds of the model *)

MaxTicks == 1     \* how many times the clock advances
MaxTemp == 1000   \* convert_temperature is run on -MaxTemp..MaxTemp tenths of a degree
MaxChanges == 1   \* preference changes after start-up

(* Program constants *)

CACHE_TTL == 600

\* the clock advances by the time an entry takes to expire
TickStep == CACHE_TTL

----------------------------------------------------------------------------
(* JSON values and Python's dict.get / truthiness *)

Null == [t |-> "null"]

Num(n) == [t |-> "num", v |-> n]

Str(s) == [t |-> "str", v |-> s]

\* bool(x) for a JSON scalar: None, 0 and "" are falsy
Truthy(x) == x # Null /\ x # Num(0) /\ x # Str("")

\* a or b
Or(a, b) == IF Truthy(a) THEN a ELSE b

\* d.get(k)
Get(d, k) == IF k \in DOMAIN d THEN d[k] ELSE Null

\* d.get(k, dflt)
GetD(d, k, dflt) == IF k \in DOMAIN d THEN d[k] ELSE dflt

\* s.lower() on the city names of the model
Lower(s) ==
    CASE s = "Paris" -> "paris"
      [] s = "Auto" -> "auto"
      [] s = "Static" -> "static"
      [] s = "Macapa" -> "macapa"
      [] s = "Greenwich" -> "greenwich"
      [] OTHER -> s

\* s.upper() on the country codes of the model
Upper(s) ==
    CASE s = "fr" -> "FR"
      [] s = "br" -> "BR"
      [] OTHER -> s

\* a division that rounds down
TruncDiv_Floor(a, d) == a \div d

\* int(x / d): Python's int() truncates toward zero
TruncDiv(a, d) == IF a >= 0 THEN a \div d ELSE -((-a) \div d)

----------------------------------------------------------------------------
(* Utilities *)

\* temp is in tenths of a degree Celsius: temp*9/5+32 = (9*t10 + 1600)/50
convert_temperature(temp, unit) ==
    IF unit = "f" THEN TruncDiv(9 * temp + 1600, 50) ELSE TruncDiv(temp, 10)

country_flag(country_code) ==
    IF ~Truthy(country_code) \/ Len(country_code.v) # 2
    THEN ""
    ELSE Upper(country_code.v)

OPEN_METEO_WEATHER_CODES ==
    [c \in {0, 1, 2, 3, 45, 48, 51, 53, 55, 56, 57, 61, 63, 65, 66, 67, 71,
            73, 75, 77, 80, 81, 82, 85, 86, 95, 96, 99} |->
        CASE c = 0 -> "ceu limpo"
          [] c = 1 -> "parcialmente nublado"
          [] c \in {2, 3} -> "nublado"
          [] c = 45 -> "neblina"
          [] c = 48 -> "neblina com gelo"
          [] c = 51 -> "chuva fraca"
          [] c = 53 -> "chuva moderada"
          [] c = 55 -> "chuva forte"
          [] c = 56 -> "chuva congelante fraca"
          [] c = 57 -> "chuva congelante forte"
          [] c = 61 -> "chuva"
          [] c = 63 -> "chuva forte"
          [] c = 65 -> "chuva intensa"
          [] c = 66 -> "chuva congelante leve"
          [] c = 67 -> "chuva congelante intensa"
          [] c = 71 -> "neve fraca"
          [] c = 73 -> "neve moderada"
          [] c = 75 -> "neve intensa"
          [] c = 77 -> "granizo"
          [] c = 80 -> "chuva forte"
          [] c \in {81, 82} -> "chuva intensa"
          [] c = 85 -> "neve leve"
          [] c = 86 -> "neve intensa"
          [] c = 95 -> "trovoada"
          [] c = 96 -> "trovoada com granizo"
          [] OTHER -> "trovoada com granizo intenso"]

\* OPEN_METEO_WEATHER_CODES.get(code, "desconhecido")
WeatherDesc(code) == GetD(OPEN_METEO_WEATHER_CODES, code, "desconhecido")

----------------------------------------------------------------------------
(* HTTP answers.  session.get either raises (timeout, connection error,    *)
(* retries exhausted on a 5xx) or returns a status and a body; r.json()    *)
(* raises unless the body is JSON.                                         *)

Raised == [err |-> TRUE]

Http(status, data) == [err |-> FALSE, status |-> status, json |-> TRUE, data |-> data]

NotJson(status) == [err |-> FALSE, status |-> status, json |-> FALSE]

----------------------------------------------------------------------------
(* WeatherService.fetch_location *)

\* the three IP-geolocation services, in the order of the list `apis`
APIS == <<"ip-api.com", "freeipapi.com", "ipapi.co">>

\* s[:2] on the country codes of the model
Take2(s) == IF s = "BRA" THEN "BR" ELSE s

\* the dict built at lines 107-113 from a parsed body
LocationOf(data) ==
    [city |-> Or(Or(Get(data, "city"), Get(data, "cityName")), Str("Desconhecida")),
     state |-> Or(Get(data, "region"), Str("")),
     country |-> Str(Take2(Or(Or(Get(data, "countryCode"), Get(data, "country_code")),
                              Str("BR")).v)),
     latitude |-> Or(Get(data, "lat"), Get(data, "latitude")),
     longitude |-> Or(Get(data, "lon"), Get(data, "longitude"))]

\* the loop body without its status test
LocationAnswered_AnyStatus(r) == ~r.err /\ r.json

\* one pass of the loop body: TRUE when the body reaches the return statement
LocationAnswered(r) == ~r.err /\ r.status = 200 /\ r.json

RECURSIVE fetch_location_from(_, _)
\* the for loop from service i on; answers[i] is what service i replies when asked
fetch_location_from(answers, i) ==
    IF i > Len(APIS)
    THEN [geo |-> Null, contacted |-> i - 1]
    ELSE IF LocationAnswered(answers[i])
         THEN [geo |-> LocationOf(answers[i].data), contacted |-> i]
         ELSE fetch_location_from(answers, i + 1)

fetch_location(answers) == fetch_location_from(answers, 1)

----------------------------------------------------------------------------
(* WeatherService.fetch_weather_openmeteo *)

Min(a, b) == IF a <= b THEN a ELSE b

\* the list comprehension of lines 126-130 raises KeyError / IndexError
ForecastRaises(daily) ==
    LET n == Min(2, Len(GetD(daily, "temperature_2m_max", <<>>)))
    IN  n > 0 /\ (\/ "temperature_2m_min" \notin DOMAIN daily
                  \/ "weathercode" \notin DOMAIN daily
                  \/ Len(daily["temperature_2m_min"]) < n
                  \/ Len(daily["weathercode"]) < n)

ForecastOf(daily, unit) ==
    LET n == Min(2, Len(GetD(daily, "temperature_2m_max", <<>>)))
    IN  [i \in 1..n |->
            [max |-> convert_temperature(daily["temperature_2m_max"][i], unit),
             min |-> convert_temperature(daily["temperature_2m_min"][i], unit),
             desc |-> WeatherDesc(daily["weathercode"][i])]]

\* answer is what api.open-meteo.com replies; the result is a weather dict or Null (None)
fetch_weather_openmeteo(answer, unit) ==
    IF answer.err \/ ~answer.json
    THEN Null
    ELSE LET data == answer.data
             daily == GetD(data, "daily", <<>>)
             current == GetD(data, "current_weather", <<>>)
         IN  IF ForecastRaises(daily)
             THEN Null
             ELSE [current |->
                      [temp |-> convert_temperature(GetD(current, "temperature", 0), unit),
                       desc |-> WeatherDesc(GetD(current, "weathercode", 0))],
                   forecast |-> ForecastOf(daily, unit)]

----------------------------------------------------------------------------
(* What the outside world can answer *)

\* the bodies the three IP services send for the same address; each service
\* has its own field names
IpBody(i) ==
    CASE i = 1 -> [city |-> Str("Paris"), region |-> Str("Ile-de-France"),
                   regionName |-> Str("Ile-de-France"), countryCode |-> Str("FR"),
                   lat |-> Num(48), lon |-> Num(2)]
      [] i = 2 -> [cityName |-> Str("Paris"), regionName |-> Str("Ile-de-France"),
                   countryCode |-> Str("FR"), latitude |-> Num(48), longitude |-> Num(2)]
      [] OTHER -> [city |-> Str("Paris"), region |-> Str("Ile-de-France"),
                   country_code |-> Str("FR"), latitude |-> Num(48), longitude |-> Num(2)]

\* a 200 answer that reports a failed lookup: parseable, without coordinates
IpFailBody == [status |-> Str("fail"), message |-> Str("reserved range")]

IpAnswers(i) ==
    {Raised, NotJson(200), Http(403, IpFailBody), Http(200, IpBody(i)), Http(200, IpFailBody)}

IpAnswerVectors == {<<a, b, c>> : a \in IpAnswers(1), b \in IpAnswers(2), c \in IpAnswers(3)}

\* the answers drawn when a whole request is run: the first service locates
\* the address; two fail and the third locates it; all fail; the first
\* reports a failed lookup
RequestIpVectors ==
    {<<Http(200, IpBody(1)), Raised, Raised>>,
     <<NotJson(200), Http(403, IpFailBody), Http(200, IpBody(3))>>,
     <<Raised, Http(403, IpFailBody), NotJson(200)>>,
     <<Http(200, IpFailBody), Raised, Raised>>}

ParisFR == [name |-> Str("Paris"), admin1 |-> Str("Ile-de-France"), country_code |-> Str("FR"),
            latitude |-> Num(48), longitude |-> Num(2)]

\* a match on the equator
Macapa == [name |-> Str("Macapa"), country_code |-> Str("BR"),
           latitude |-> Num(0), longitude |-> Num(-51)]

\* matches with a field missing
NoLongitude == [name |-> Str("Paris"), country_code |-> Str("FR"), latitude |-> Num(48)]

NoName == [country_code |-> Str("FR"), latitude |-> Num(48), longitude |-> Num(2)]

\* an answer without the key "results" reports no match
GeocodeAnswers ==
    {Raised,
     Http(200, [generationtime_ms |-> Num(1)]),
     Http(200, [results |-> <<ParisFR>>]),
     Http(200, [results |-> <<Macapa>>]),
     Http(200, [results |-> <<NoLongitude>>]),
     Http(200, [results |-> <<NoName>>])}

\* the daily block Open-Meteo sends: the URL of line 121 names no start date,
\* so the series begins on the request date.  time: days after the request date
FullDaily ==
    [time |-> <<0, 1, 2>>,
     temperature_2m_max |-> <<230, 251, 198>>, temperature_2m_min |-> <<120, 134, -5>>,
     weathercode |-> <<3, 61, 0>>]

CurrentWeather == [temperature |-> 215, weathercode |-> 3]

FullBody == [current_weather |-> CurrentWeather, daily |-> FullDaily]

\* the answer Open-Meteo gives to a request it rejects
ErrorBody == [error |-> TRUE, reason |-> "bad request"]

WeatherAnswers ==
    {Raised, NotJson(200), Http(400, ErrorBody), Http(200, FullBody),
     Http(200, [daily |-> FullDaily]),
     Http(200, [current_weather |-> CurrentWeather]),
     Http(200, [current_weather |-> CurrentWeather,
                daily |-> [temperature_2m_max |-> <<230, 251>>, weathercode |-> <<3, 61>>]]),
     Http(200, [current_weather |-> CurrentWeather,
                daily |-> [temperature_2m_max |-> <<230, 251>>,
                           temperature_2m_min |-> <<120, 134>>]]),
     Http(200, [current_weather |-> CurrentWeather,
                daily |-> [temperature_2m_max |-> <<230>>, temperature_2m_min |-> <<120>>,
                           weathercode |-> <<3>>]])}

\* the answers drawn when a whole request is run
RequestWeatherAnswers == {Raised, Http(200, FullBody)}

\* Open-Meteo rejects a request whose URL carries latitude=None or longitude=None
OpenMeteo(lat, lon, answer) ==
    IF (lat = Null \/ lon = Null) /\ ~answer.err THEN Http(400, ErrorBody) ELSE answer

----------------------------------------------------------------------------
(* Preferences *)

\* (preferences.get(k) or dflt).lower()
Pref(prefs, k, dflt) == Lower(Or(prefs[k], Str(dflt)).v)

PrefValues ==
    [provider |-> {Null, Str("openweather")},
     api_key |-> {Null, Str("k")},
     location_mode |-> {Str("auto"), Str("static")},
     static_location |-> {Null, Str("Paris")},
     unit |-> {Str("c"), Str("f")},
     interface_mode |-> {Null, Str("essential")}]

PrefKeys == DOMAIN PrefValues

----------------------------------------------------------------------------
(* The cache and its file *)

\* f"{id}_{provider}_{unit}"
Key(id, provider, unit) == <<id, provider, unit>>

\* cache[key] = entry
Put(c, key, entry) == (key :> entry) @@ c

EmptyCache == <<>>

\* json.dump(cache_data, f): the file holds an image of the dict
save_cache(cache_data) == [exists |-> TRUE, json |-> TRUE, data |-> cache_data]

\* {} unless the file exists and parses
load_cache(f) == IF f.exists /\ f.json THEN f.data ELSE EmptyCache

\* time.time() - entry["ts"] < CACHE_TTL
Fresh(entry, t) == t - entry.ts < CACHE_TTL

\* the keys whose entry a reader at time t takes as valid
FreshKeys(c, t) == {k \in DOMAIN c : "ts" \in DOMAIN c[k] /\ Fresh(c[k], t)}

----------------------------------------------------------------------------
(* WeatherListener.render *)

\* render reads cached_item["geo"] and cached_item["data"]
RenderRaises(cached_item) == ~({"geo", "data"} \subseteq DOMAIN cached_item)

\* f"{city}, {state} {flag}" or f"{city} {flag}"
LocText(geo) ==
    IF Truthy(geo.state)
    THEN [city |-> geo.city, state |-> geo.state, flag |-> country_flag(geo.country)]
    ELSE [city |-> geo.city, flag |-> country_flag(geo.country)]

render(cached_item, interface_mode) ==
    LET geo == cached_item.geo
        weather == cached_item.data
        url == <<geo.latitude, geo.longitude>>
        temp == weather.current.temp
        desc == weather.current.desc
        f == GetD(weather, "forecast", <<>>)
    IN  IF interface_mode = "complete"
        THEN [item |-> "ExtensionResultItem",
              name |-> [loc |-> LocText(geo), temp |-> temp, desc |-> desc],
              description |-> IF f # <<>>
                              THEN [tomorrow_min |-> f[1].min, tomorrow_max |-> f[1].max]
                              ELSE [text |-> "Clique para detalhes"],
              url |-> url]
        ELSE IF interface_mode = "essential"
        THEN [item |-> "ExtensionResultItem",
              name |-> [temp |-> temp, desc |-> desc],
              description |-> [loc |-> LocText(geo)],
              url |-> url]
        ELSE [item |-> "ExtensionSmallResultItem",
              name |-> [temp |-> temp, loc |-> LocText(geo)],
              url |-> url]

\* the items of the two error lists on_event returns
NotFoundItem ==
    [item |-> "ExtensionResultItem", name |-> [text |-> "Cidade nao encontrada"],
     description |-> [text |-> "Digite uma cidade valida para continuar"]]

UnavailableItem(provider) ==
    [item |-> "ExtensionResultItem",
     name |-> [text |-> "Localizacao ou dados nao disponiveis"],
     description |-> [text |-> "Provedor atual", provider |-> provider]]

----------------------------------------------------------------------------
(* UWeather.get_weather_data *)

\* get_weather_data without its api_key test
ApiKeyMissing_Never(prefs) == FALSE

\* the provider needs a key and none is configured
ApiKeyMissing(prefs) ==
    Pref(prefs, "provider", "open-meteo") = "openweather" /\ ~Truthy(prefs.api_key)

\* answer: what Open-Meteo replies if asked.  fetched: the requests sent
get_weather_data(prefs, lat, lon, unit, answer) ==
    IF ApiKeyMissing(prefs)
    THEN [weather |-> [error |-> "API Key ausente"], fetched |-> <<>>]
    ELSE [weather |-> fetch_weather_openmeteo(OpenMeteo(lat, lon, answer), unit),
          fetched |-> <<[latitude |-> lat, longitude |-> lon]>>]

\* weather and "error" not in weather
WeatherOk(weather) == weather # Null /\ "error" \notin DOMAIN weather

----------------------------------------------------------------------------
(* UWeather.update_auto_location *)

\* the geocoding service returns at most `count` matches
GeocodeServer(answer, count) ==
    IF answer.err \/ ~answer.json \/ "results" \notin DOMAIN answer.data
    THEN answer
    ELSE Http(answer.status,
              [results |-> SubSeq(answer.data.results, 1,
                                  Min(count, Len(answer.data.results)))])

\* res.get("latitude") or res.get("lat")
LatOf(res) == Or(Get(res, "latitude"), Get(res, "lat"))

\* res.get("longitude") or res.get("lon")
LonOf(res) == Or(Get(res, "longitude"), Get(res, "lon"))

\* the geo dict built from a geocoding match (lines 196-202 and 270-276)
GeoOf(res) ==
    [city |-> Get(res, "name"),
     state |-> GetD(res, "admin1", Str("")),
     country |-> GetD(res, "country_code", Str("BR")),
     latitude |-> LatOf(res),
     longitude |-> LonOf(res)]

NothingFetched == [store |-> Null, ip |-> 0, geocode |-> 0, weather |-> <<>>]

\* mode == "auto", up to the cache write
FetchAuto(prefs, ipAnswers, weatherAnswer) ==
    LET unit == Pref(prefs, "unit", "c")
        provider == Pref(prefs, "provider", "open-meteo")
        loc == fetch_location(ipAnswers)
        geo == loc.geo
        got == get_weather_data(prefs, geo.latitude, geo.longitude, unit, weatherAnswer)
    IN  IF geo = Null
        THEN [NothingFetched EXCEPT !.ip = loc.contacted]
        ELSE [store |-> IF WeatherOk(got.weather)
                        THEN [key |-> Key("auto", provider, unit), geo |-> geo,
                              data |-> got.weather]
                        ELSE Null,
              ip |-> loc.contacted, geocode |-> 0, weather |-> got.fetched]

\* mode == "static", up to the cache write
FetchStatic(prefs, geocodeAnswer, weatherAnswer) ==
    LET unit == Pref(prefs, "unit", "c")
        provider == Pref(prefs, "provider", "open-meteo")
        r == GeocodeServer(geocodeAnswer, 1)
        res == GetD(r.data, "results", <<>>)
        geo == GeoOf(res[1])
        got == get_weather_data(prefs, geo.latitude, geo.longitude, unit, weatherAnswer)
    IN  IF ~Truthy(prefs.static_location)
        THEN NothingFetched
        ELSE IF r.err \/ ~r.json
        THEN [NothingFetched EXCEPT !.geocode = 1]
        ELSE IF res # <<>> /\ Truthy(LatOf(res[1]))
        THEN [store |-> IF WeatherOk(got.weather)
                        THEN [key |-> Key("static", provider, unit), geo |-> geo,
                              data |-> got.weather]
                        ELSE Null,
              ip |-> 0, geocode |-> 1, weather |-> got.fetched]
        ELSE [NothingFetched EXCEPT !.geocode = 1]

\* update_auto_location locating by IP whenever no static location is set
update_auto_location_fetch_IpFallback(prefs, ipAnswers, geocodeAnswer, weatherAnswer) ==
    LET mode == Pref(prefs, "location_mode", "auto")
    IN  IF mode = "static" /\ Truthy(prefs.static_location)
        THEN FetchStatic(prefs, geocodeAnswer, weatherAnswer)
        ELSE FetchAuto(prefs, ipAnswers, weatherAnswer)

\* update_auto_location up to its cache write: what it will store (or Null)
\* and the requests it sent
update_auto_location_fetch(prefs, ipAnswers, geocodeAnswer, weatherAnswer) ==
    LET mode == Pref(prefs, "location_mode", "auto")
    IN  IF mode = "auto" THEN FetchAuto(prefs, ipAnswers, weatherAnswer)
        ELSE IF mode = "static" THEN FetchStatic(prefs, geocodeAnswer, weatherAnswer)
        ELSE NothingFetched

\* self.cache[key] = {"geo": geo, "data": weather, "ts": time.time()}
StoreEntry(c, store, t) ==
    Put(c, store.key, [geo |-> store.geo, data |-> store.data, ts |-> t])

\* the whole method, run without interruption (the call at line 228)
update_auto_location(prefs, c, f, t, ipAnswers, geocodeAnswer, weatherAnswer) ==
    LET u == update_auto_location_fetch(prefs, ipAnswers, geocodeAnswer, weatherAnswer)
        c2 == IF u.store = Null THEN c ELSE StoreEntry(c, u.store, t)
    IN  [cache |-> c2,
         file |-> IF u.store = Null THEN f ELSE save_cache(c2),
         stored |-> IF u.store = Null THEN <<>> ELSE <<u.store.key>>,
         ip |-> u.ip, geocode |-> u.geocode, weather |-> u.weather]

----------------------------------------------------------------------------
(* WeatherListener.on_event *)

\* a query is event.get_argument(), stripped and split on commas: "" is <<>>,
\* "paris" is <<"paris">>, "paris, br" is <<"paris", "br">>

\* RenderResultListAction(items)
Weather(items) == [kind |-> "weather", items |-> items]

\* the list returned at lines 288-293
Unavailable(prefs) ==
    [kind |-> "error", items |-> <<UnavailableItem(Pref(prefs, "provider", "open-meteo"))>>]

\* the list returned at lines 249-254
NotFound == [kind |-> "error", items |-> <<NotFoundItem>>]

\* an exception leaves on_event: nothing is returned
Escaped == [kind |-> "exception", items |-> <<>>]

\* a request that touched nothing
Untouched(c, f) ==
    [cache |-> c, file |-> f, result |-> Escaped, served |-> <<>>, stored |-> <<>>,
     ip |-> 0, geocode |-> 0, weather |-> <<>>]

\* return self.render(extension.cache[key], extension, interface)
RenderCached(prefs, entry) ==
    IF RenderRaises(entry)
    THEN [result |-> Escaped, served |-> <<>>]
    ELSE [result |-> Weather(<<render(entry, Pref(prefs, "interface_mode", "complete"))>>),
          served |-> <<entry>>]

\* key = f"{mode}_{provider}_{unit}"
RequestKey(prefs) ==
    Key(Pref(prefs, "location_mode", "auto"), Pref(prefs, "provider", "open-meteo"),
        Pref(prefs, "unit", "c"))

\* the branch `if not query` (lines 223-230), falling through to line 288
on_event_empty(prefs, c, f, t, ipAnswers, geocodeAnswer, weatherAnswer) ==
    LET key == RequestKey(prefs)
        u == update_auto_location(prefs, c, f, t, ipAnswers, geocodeAnswer, weatherAnswer)
        refreshed == [cache |-> u.cache, file |-> u.file, stored |-> u.stored,
                      ip |-> u.ip, geocode |-> u.geocode, weather |-> u.weather]
    IN  IF key \in DOMAIN c /\ "ts" \notin DOMAIN c[key]
        THEN Untouched(c, f)
        ELSE IF key \in DOMAIN c /\ Fresh(c[key], t)
        THEN [Untouched(c, f) EXCEPT !.result = RenderCached(prefs, c[key]).result,
                                     !.served = RenderCached(prefs, c[key]).served]
        ELSE IF key \in DOMAIN u.cache
        THEN refreshed @@ RenderCached(prefs, u.cache[key])
        ELSE refreshed @@ [result |-> Unavailable(prefs), served |-> <<>>]

\* results after the country filter and the latitude filter (lines 242-246)
Candidates(parts, r) ==
    LET results == GetD(r.data, "results", <<>>)
        country_filter == IF Len(parts) > 1 THEN Upper(parts[2]) ELSE ""
        InCountry(res) == Upper(GetD(res, "country_code", Str("")).v) = country_filter
        HasLat(res) == Truthy(LatOf(res))
        filtered == IF country_filter # "" THEN SelectSeq(results, InCountry) ELSE results
    IN  SelectSeq(filtered, HasLat)

\* results[:3] without the matches skipped at line 262: one future each
Submitted(results) ==
    LET Complete(res) == LatOf(res) # Null /\ LonOf(res) # Null
    IN  SelectSeq(SubSeq(results, 1, Min(3, Len(results))), Complete)

RECURSIVE Collect(_, _, _, _, _, _, _)
\* the loop over as_completed (lines 266-280): order[k] is the k-th future to
\* complete, answers[i] what Open-Meteo replies to future i
Collect(prefs, futures, answers, order, k, t, acc) ==
    IF k > Len(order) \/ acc.raised
    THEN acc
    ELSE LET res == futures[order[k]]
             unit == Pref(prefs, "unit", "c")
             got == get_weather_data(prefs, LatOf(res), LonOf(res), unit, answers[order[k]])
             geo == GeoOf(res)
             data == [geo |-> geo, data |-> got.weather, ts |-> t]
             key == Key(Lower(geo.city.v), Pref(prefs, "provider", "open-meteo"), unit)
             c2 == Put(acc.cache, key, data)
         IN  IF ~WeatherOk(got.weather)
             THEN Collect(prefs, futures, answers, order, k + 1, t, acc)
             ELSE IF geo.city = Null
             THEN [acc EXCEPT !.raised = TRUE]
             ELSE Collect(prefs, futures, answers, order, k + 1, t,
                      [acc EXCEPT !.cache = c2, !.file = save_cache(c2),
                                  !.stored = Append(@, key),
                                  !.served = Append(@, data),
                                  !.items = Append(@, render(data,
                                      Pref(prefs, "interface_mode", "complete")))])

\* every submitted future sends its request, whatever the loop then does
AllFetched(prefs, futures, answers) ==
    IF ApiKeyMissing(prefs)
    THEN <<>>
    ELSE [i \in 1..Len(futures) |->
             [latitude |-> LatOf(futures[i]), longitude |-> LonOf(futures[i])]]

\* the branch `else` (lines 232-286), falling through to line 288
on_event_query(prefs, c, f, t, parts, geocodeAnswer, answers, order) ==
    LET r == GeocodeServer(geocodeAnswer, 5)
        results == Candidates(parts, r)
        futures == Submitted(results)
        done == Collect(prefs, futures, answers, order, 1, t,
                        [cache |-> c, file |-> f, stored |-> <<>>, served |-> <<>>,
                         items |-> <<>>, raised |-> FALSE])
        ran == [cache |-> done.cache, file |-> done.file, stored |-> done.stored,
                ip |-> 0, geocode |-> 1, weather |-> AllFetched(prefs, futures, answers)]
    IN  IF r.err \/ ~r.json
        THEN [Untouched(c, f) EXCEPT !.geocode = 1, !.result = Unavailable(prefs)]
        ELSE IF results = <<>>
        THEN [Untouched(c, f) EXCEPT !.geocode = 1, !.result = NotFound]
        ELSE IF done.items # <<>> /\ ~done.raised
        THEN ran @@ [result |-> Weather(done.items), served |-> done.served]
        ELSE ran @@ [result |-> Unavailable(prefs), served |-> <<>>]

----------------------------------------------------------------------------
(* The state machine *)

Range(seq) == {seq[i] : i \in DOMAIN seq}

NoResult == [kind |-> "none", items |-> <<>>]

\* `last` after an operation that is not a request
Idle(op) ==
    [op |-> op, query |-> <<>>, fresh |-> {}, result |-> NoResult, served |-> <<>>,
     stored |-> <<>>, ip |-> 0, geocode |-> 0, weather |-> <<>>]

NoCall == [fn |-> "none"]

DefaultPreferences ==
    [provider |-> Null, api_key |-> Null, location_mode |-> Str("auto"),
     static_location |-> Null, unit |-> Str("c"), interface_mode |-> Null]

\* the configurations the extension starts with
InitPreferences ==
    {DefaultPreferences,
     [DefaultPreferences EXCEPT !.location_mode = Str("static"),
                                !.static_location = Str("Paris")]}

\* entries an earlier run, or an earlier version of the program, left in the file
StaleEntry ==
    [geo |-> LocationOf(IpBody(1)),
     data |-> fetch_weather_openmeteo(Http(200, FullBody), "c"),
     ts |-> 0 - CACHE_TTL]

EntryWithoutTs == [geo |-> StaleEntry.geo, data |-> StaleEntry.data]

EntryWithoutGeo == [data |-> StaleEntry.data, ts |-> 0]

\* what cache_weather.json can hold when the extension starts
InitFiles(prefs) ==
    {[exists |-> FALSE], [exists |-> TRUE, json |-> FALSE]}
    \cup {save_cache(RequestKey(prefs) :> e) :
             e \in {StaleEntry, EntryWithoutTs, EntryWithoutGeo}}

\* ThreadPoolExecutor(max_workers=1).submit(self.update_auto_location)
Submit(threads) == Append(threads, [pc |-> "submitted"])

Remove(threads, i) == SubSeq(threads, 1, i - 1) \o SubSeq(threads, i + 1, Len(threads))

\* UWeather.__init__
Init ==
    /\ preferences \in InitPreferences
    /\ file \in InitFiles(preferences)
    /\ cache = load_cache(file)
    /\ now = 0
    /\ bg = Submit(<<>>)
    /\ changes = 0
    /\ last = Idle("start")
    /\ call = NoCall

\* the clock advances
Tick ==
    /\ now < MaxTicks * TickStep
    /\ now' = now + TickStep
    /\ last' = Idle("tick")
    /\ UNCHANGED <<preferences, cache, file, bg, changes, call>>

\* a request ends: its effects, and what it did.  fresh: the keys, among those
\* the request reads or writes, that held a valid entry when it started
Finish(op, parts, own, done) ==
    /\ cache' = done.cache
    /\ file' = done.file
    /\ last' = [op |-> op, query |-> parts,
                fresh |-> FreshKeys(cache, now) \cap (own \cup Range(done.stored)),
                result |-> done.result, served |-> done.served, stored |-> done.stored,
                ip |-> done.ip, geocode |-> done.geocode, weather |-> done.weather]
    /\ UNCHANGED <<preferences, now, bg, changes, call>>

\* the answers update_auto_location can meet under these preferences (a
\* service that is not asked answers nothing)
NoAnswers == [ip |-> <<Raised, Raised, Raised>>, geocode |-> Raised, weather |-> Raised]

Answers(prefs) ==
    LET mode == Pref(prefs, "location_mode", "auto")
    IN  IF mode = "auto"
        THEN {[NoAnswers EXCEPT !.ip = i, !.weather = w] :
                 i \in RequestIpVectors, w \in RequestWeatherAnswers}
        ELSE IF Truthy(prefs.static_location)
        THEN {[NoAnswers EXCEPT !.geocode = g, !.weather = w] :
                 g \in GeocodeAnswers, w \in RequestWeatherAnswers}
        ELSE {NoAnswers}

\* the request is answered from the cache without asking any service
Hit(prefs, c, t) ==
    LET key == RequestKey(prefs)
    IN  key \in DOMAIN c /\ ("ts" \in DOMAIN c[key] => Fresh(c[key], t))

\* a keyword event with no argument
OnEventEmpty ==
    \E a \in IF Hit(preferences, cache, now) THEN {NoAnswers} ELSE Answers(preferences) :
        LET ipAnswers == a.ip
            geocodeAnswer == a.geocode
            weatherAnswer == a.weather
        IN
            Finish("on_event", <<>>, {RequestKey(preferences)},
                   on_event_empty(preferences, cache, file, now,
                                  ipAnswers, geocodeAnswer, weatherAnswer))

CompletionOrders(n) == {p \in [1..n -> 1..n] : \A i, j \in 1..n : p[i] = p[j] => i = j}

\* how many weather requests the typed query will submit, given the geocoder's answer
Futures(parts, geocodeAnswer) ==
    LET r == GeocodeServer(geocodeAnswer, 5)
    IN  IF r.err \/ ~r.json THEN 0 ELSE Len(Submitted(Candidates(parts, r)))

\* the typed queries and what the geocoder answers them: a city name with
\* every answer, and a city with a country that its only match is not in
TypedLookups ==
    {<<<<"paris">>, g>> : g \in GeocodeAnswers}
    \cup {<<<<"paris", "br">>, Http(200, [results |-> <<ParisFR>>])>>}

\* a keyword event with a typed city
OnEventQuery ==
    \E lookup \in TypedLookups :
      LET parts == lookup[1]
          geocodeAnswer == lookup[2]
      IN
        \E answers \in [1..Futures(parts, geocodeAnswer) -> RequestWeatherAnswers],
           order \in CompletionOrders(Futures(parts, geocodeAnswer)) :
            Finish("on_event", parts, {},
                   on_event_query(preferences, cache, file, now, parts,
                                  geocodeAnswer, answers, order))

\* line 166 without the unit
RelevantKeys_WithoutUnit == {"provider", "api_key", "location_mode", "static_location"}

\* the keys whose change empties the cache (line 166)
RelevantKeys == {"provider", "api_key", "location_mode", "static_location", "unit"}

\* the user changes a preference: the host stores the new value and calls
\* on_preferences_changed(key, value)
OnPreferencesChanged ==
    \E key \in PrefKeys : \E value \in PrefValues[key] \ {preferences[key]} :
        /\ changes < MaxChanges
        /\ changes' = changes + 1
        /\ preferences' = [preferences EXCEPT ![key] = value]
        /\ IF key \in RelevantKeys
           THEN /\ cache' = EmptyCache
                /\ file' = save_cache(EmptyCache)
                /\ bg' = Submit(bg)
           ELSE UNCHANGED <<cache, file, bg>>
        /\ last' = [Idle("on_preferences_changed") EXCEPT
                        !.query = <<key>>, !.fresh = FreshKeys(cache, now)]
        /\ UNCHANGED <<now, call>>

\* a background thread runs update_auto_location up to its cache write
BgFetch ==
    \E i \in 1..Len(bg) :
        /\ bg[i].pc = "submitted"
        /\ \E a \in Answers(preferences) :
                   LET u == update_auto_location_fetch(preferences, a.ip,
                                                       a.geocode, a.weather)
                   IN  /\ bg' = IF u.store = Null THEN Remove(bg, i)
                                ELSE [bg EXCEPT ![i] = [pc |-> "fetched", store |-> u.store]]
                       /\ last' = Idle("update_auto_location")
        /\ UNCHANGED <<preferences, cache, file, now, changes, call>>

\* a background thread writes its entry and saves the cache (lines 185-186, 206-207)
BgStore ==
    \E i \in 1..Len(bg) :
        /\ bg[i].pc = "fetched"
        /\ cache' = StoreEntry(cache, bg[i].store, now)
        /\ file' = save_cache(cache')
        /\ bg' = Remove(bg, i)
        /\ last' = Idle("update_auto_location")
        /\ UNCHANGED <<preferences, now, changes, call>>

----------------------------------------------------------------------------
(* The functions on their own: `call` holds a function's arguments and then
   its result *)

InterfaceModes == {"complete", "essential", "minimal", "banner"}

\* cache entries render can be handed: every weather record the Open-Meteo
\* reader can build, at a place with a state and at one without
RenderEntries ==
    {[geo |-> g, data |-> fetch_weather_openmeteo(a, u), ts |-> 0] :
        g \in {LocationOf(IpBody(1)), LocationOf(IpBody(2))},
        a \in {w \in WeatherAnswers : fetch_weather_openmeteo(w, "c") # Null},
        u \in {"c", "f"}}

Calls ==
    {[fn |-> "fetch_location", answers |-> v] : v \in IpAnswerVectors}
    \cup {[fn |-> "fetch_weather_openmeteo", answer |-> a, unit |-> u] :
             a \in WeatherAnswers, u \in {"c", "f"}}
    \cup {[fn |-> "render", cached_item |-> e, interface_mode |-> m] :
             e \in RenderEntries, m \in InterfaceModes}
    \cup {[fn |-> "convert_temperature", temp |-> t, unit |-> u] :
             t \in (0 - MaxTemp)..MaxTemp, u \in {"c", "f", "k"}}

Returned == "out" \in DOMAIN call

InitFn ==
    /\ preferences = DefaultPreferences
    /\ file = [exists |-> FALSE]
    /\ cache = load_cache(file)
    /\ now = 0
    /\ bg = <<>>
    /\ changes = 0
    /\ last = Idle("start")
    /\ call \in Calls

Return(value) ==
    /\ call' = call @@ [out |-> value]
    /\ UNCHANGED <<preferences, cache, file, now, bg, changes, last>>

CallFetchLocation ==
    /\ call.fn = "fetch_location" /\ ~Returned
    /\ Return(fetch_location(call.answers))

CallFetchWeatherOpenmeteo ==
    /\ call.fn = "fetch_weather_openmeteo" /\ ~Returned
    /\ Return(fetch_weather_openmeteo(call.answer, call.unit))

CallRender ==
    /\ call.fn = "render" /\ ~Returned
    /\ Return(render(call.cached_item, call.interface_mode))

CallConvertTemperature ==
    /\ call.fn = "convert_temperature" /\ ~Returned
    /\ Return(convert_temperature(call.temp, call.unit))

NextFn ==
    CallFetchLocation \/ CallFetchWeatherOpenmeteo \/ CallRender \/ CallConvertTemperature

SpecFn == InitFn /\ [][NextFn]_vars

Next == Tick \/ OnEventEmpty \/ OnEventQuery \/ OnPreferencesChanged \/ BgFetch \/ BgStore

Spec == Init /\ [][Next]_vars

----------------------------------------------------------------------------
(* One configuration in detail: cities typed by the user that have several
   matches or lie on the equator or the prime meridian, and the start-up
   thread writing the cache file step by step *)

\* further matches of the geocoding service
ParisUS == [name |-> Str("Paris"), admin1 |-> Str("Texas"), country_code |-> Str("US"),
            latitude |-> Num(33), longitude |-> Num(-95)]

AutoAS == [name |-> Str("Auto"), country_code |-> Str("AS"),
           latitude |-> Num(-14), longitude |-> Num(-170)]

Greenwich == [name |-> Str("Greenwich"), admin1 |-> Str("England"),
              country_code |-> Str("GB"), latitude |-> Num(51), longitude |-> Num(0)]

\* the typed queries and the matches the geocoder ranks for them
CityLookups ==
    {<<<<"paris">>, Http(200, [results |-> <<ParisFR, ParisUS>>])>>,
     <<<<"auto">>, Http(200, [results |-> <<AutoAS>>])>>,
     <<<<"macapa">>, Http(200, [results |-> <<Macapa>>])>>,
     <<<<"greenwich">>, Http(200, [results |-> <<Greenwich>>])>>}

InitCities ==
    /\ preferences = DefaultPreferences
    /\ file = [exists |-> FALSE]
    /\ cache = load_cache(file)
    /\ now = 0
    /\ bg = Submit(<<>>)
    /\ changes = 0
    /\ last = Idle("start")
    /\ call = NoCall

\* a keyword event with a typed city; call keeps what the geocoder answered
OnEventCity ==
    \E lookup \in CityLookups :
      LET parts == lookup[1]
          geocodeAnswer == lookup[2]
      IN
        \E answers \in [1..Futures(parts, geocodeAnswer) -> RequestWeatherAnswers],
           order \in CompletionOrders(Futures(parts, geocodeAnswer)) :
            \E done \in {on_event_query(preferences, cache, file, now, parts,
                                         geocodeAnswer, answers, order)} :
                /\ cache' = done.cache
                /\ file' = done.file
                /\ last' = [op |-> "on_event", query |-> parts,
                            fresh |-> FreshKeys(cache, now) \cap Range(done.stored),
                            result |-> done.result, served |-> done.served,
                            stored |-> done.stored, ip |-> done.ip,
                            geocode |-> done.geocode, weather |-> done.weather]
                /\ call' = [fn |-> "on_event", matches |-> geocodeAnswer.data.results,
                            answers |-> answers]
                /\ UNCHANGED <<preferences, now, bg, changes>>

\* the file while a writer has opened it with mode "w" and written nothing
Truncated == [exists |-> TRUE, json |-> FALSE]

\* the file after a writer that had buffered `buffer` closes it: the buffer
\* is written from offset 0 without truncating again, so it replaces what is
\* there when nothing longer was written meanwhile, and otherwise leaves the
\* tail of the longer text behind it
Flush(buffer, f) ==
    IF ~f.json \/ f.data = buffer.data THEN {buffer}
    ELSE IF DOMAIN buffer.data # DOMAIN f.data /\ DOMAIN buffer.data \subseteq DOMAIN f.data
    THEN {Truncated}
    ELSE IF DOMAIN buffer.data # DOMAIN f.data /\ DOMAIN f.data \subseteq DOMAIN buffer.data
    THEN {buffer}
    ELSE {buffer, Truncated}

\* self.cache[key] = {...} (lines 185 and 206)
BgSet ==
    \E i \in 1..Len(bg) :
        /\ bg[i].pc = "fetched"
        /\ cache' = StoreEntry(cache, bg[i].store, now)
        /\ bg' = [bg EXCEPT ![i] = [pc |-> "set"]]
        /\ last' = Idle("update_auto_location")
        /\ UNCHANGED <<preferences, file, now, changes, call>>

\* save_cache: open(path, "w") (line 60)
BgOpen ==
    \E i \in 1..Len(bg) :
        /\ bg[i].pc = "set"
        /\ file' = Truncated
        /\ bg' = [bg EXCEPT ![i] = [pc |-> "open"]]
        /\ last' = Idle("update_auto_location")
        /\ UNCHANGED <<preferences, cache, now, changes, call>>

\* save_cache: json.dump(cache_data, f) fills the writer's buffer (line 60)
BgDump ==
    \E i \in 1..Len(bg) :
        /\ bg[i].pc = "open"
        /\ bg' = [bg EXCEPT ![i] = [pc |-> "dumped", buffer |-> save_cache(cache)]]
        /\ last' = Idle("update_auto_location")
        /\ UNCHANGED <<preferences, cache, file, now, changes, call>>

\* save_cache: the with block closes the file (line 60)
BgClose ==
    \E i \in 1..Len(bg) :
        /\ bg[i].pc = "dumped"
        /\ file' \in Flush(bg[i].buffer, file)
        /\ bg' = Remove(bg, i)
        /\ last' = Idle("update_auto_location")
        /\ UNCHANGED <<preferences, cache, now, changes, call>>

NextCities ==
    OnEventEmpty \/ OnEventCity \/ BgFetch \/ BgSet \/ BgOpen \/ BgDump \/ BgClose

SpecCities == InitCities /\ [][NextCities]_vars

----------------------------------------------------------------------------
(* Properties of whole requests *)

\* C1: for every request, with an empty query or a typed one, if the cache
\* holds a fresh entry under the request's key then no weather fetch is issued
C1_FreshEntryNoFetch ==
    (last.op = "on_event" /\ last.fresh # {}) => last.weather = <<>>

\* C2: an entry rendered to the user is never older than CACHE_TTL: whenever a
\* request renders an entry, now - entry.ts < CACHE_TTL
C2_StaleNeverRendered ==
    last.op = "on_event" =>
        \A i \in DOMAIN last.served :
            "ts" \in DOMAIN last.served[i] => now - last.served[i].ts < CACHE_TTL

C4_FirstSuccessWins ==
    (call.fn = "fetch_location" /\ Returned) =>
        LET v == call.answers
            Failed(i) == v[i].err \/ v[i].status # 200 \/ ~v[i].json
            Good == {i \in 1..3 : ~Failed(i)}
        IN  IF Good = {}
            THEN call.out.geo = Null /\ call.out.contacted = 3
            ELSE \E i \in Good :
                    /\ \A j \in Good : i <= j
                    /\ call.out.contacted = i
                    /\ call.out.geo # Null
                    /\ call.out.geo.state = Or(Get(v[i].data, "region"), Str(""))
                    /\ call.out.geo.latitude = Or(Get(v[i].data, "lat"), Get(v[i].data, "latitude"))
                    /\ call.out.geo.longitude = Or(Get(v[i].data, "lon"), Get(v[i].data, "longitude"))

\* the first service timed out, the second answered 403, the third located
\* the address
C4_Witness ==
    /\ call.fn = "fetch_location" /\ Returned
    /\ call.answers[1].err
    /\ ~call.answers[2].err /\ call.answers[2].status = 403
    /\ call.out.contacted = 3
    /\ call.out.geo # Null /\ call.out.geo.latitude = Num(48)

\* C5: a location whose latitude or longitude is absent is never passed to a
\* weather fetch and never stored in the cache
C5_NoAbsentCoordinates ==
    /\ \A i \in DOMAIN last.weather :
           last.weather[i].latitude # Null /\ last.weather[i].longitude # Null
    /\ \A k \in DOMAIN cache :
           "geo" \in DOMAIN cache[k] =>
               cache[k].geo.latitude # Null /\ cache[k].geo.longitude # Null

\* C6: fetch_weather_openmeteo returns None when the provider answers with a
\* status outside 200..299, when the body does not parse, or when the body
\* lacks current_weather or daily
C6_ProviderFailureIsNone ==
    (call.fn = "fetch_weather_openmeteo" /\ Returned) =>
        LET a == call.answer
        IN  (\/ a.err
             \/ a.status < 200 \/ a.status > 299
             \/ ~a.json
             \/ ~({"current_weather", "daily"} \subseteq DOMAIN a.data))
            => call.out = Null

\* C7: whatever the persisted cache held, on_event returns one result list,
\* holding weather items or a single error item, and no exception escapes
C7_OneResultList ==
    last.op = "on_event" =>
        \/ last.result.kind = "weather" /\ Len(last.result.items) >= 1
        \/ last.result.kind = "error" /\ Len(last.result.items) = 1

\* C8: with provider openweather and no api_key a request issues no weather
\* fetch and writes no cache entry, and, no entry being held under the
\* request's key, it ends in a single error item
C8_MissingApiKey ==
    (/\ last.op = "on_event"
     /\ preferences.provider = Str("openweather")
     /\ preferences.api_key = Null)
    => /\ last.weather = <<>>
       /\ last.stored = <<>>
       /\ (last.query # <<>> \/ RequestKey(preferences) \notin DOMAIN cache)
              => (last.result.kind = "error" /\ Len(last.result.items) = 1)

\* an empty query with openweather and no key: the address was located, no
\* weather was asked for, the user reads the error item
C8_Witness ==
    /\ last.op = "on_event"
    /\ preferences.provider = Str("openweather")
    /\ preferences.api_key = Null
    /\ last.query = <<>>
    /\ last.ip = 1
    /\ last.weather = <<>>
    /\ last.result.kind = "error"

C10_UnknownModeIsComplete ==
    (/\ call.fn = "render" /\ Returned
     /\ call.interface_mode \notin {"ultra", "minimal", "essential", "compact", "complete"})
    => call.out = render(call.cached_item, "complete")

\* C11: the forecast the weather fetch returns leaves today out: its entry i
\* (counted from 1) is the provider's daily entry for the i-th day after the
\* request date, so the first entry, rendered as tomorrow, is the next day's
C11_ForecastExcludesToday ==
    (/\ call.fn = "fetch_weather_openmeteo" /\ Returned
     /\ call.out # Null
     /\ "daily" \in DOMAIN call.answer.data
     /\ "time" \in DOMAIN call.answer.data.daily)
    => LET daily == call.answer.data.daily
       IN  \A i \in DOMAIN call.out.forecast :
               \E j \in DOMAIN daily.time :
                   /\ daily.time[j] = i
                   /\ call.out.forecast[i].max =
                          convert_temperature(daily.temperature_2m_max[j], call.unit)
                   /\ call.out.forecast[i].min =
                          convert_temperature(daily.temperature_2m_min[j], call.unit)

\* C12: in mode complete render shows as many forecast days as the result
\* holds (0, 1 or 2), and does not fail on a short forecast
C12_ShowsEveryForecastDay ==
    (call.fn = "render" /\ Returned /\ call.interface_mode = "complete")
    => LET f == call.cached_item.data.forecast
           d == call.out.description
           shown == IF {"tomorrow_min", "tomorrow_max"} \subseteq DOMAIN d THEN 1 ELSE 0
       IN  /\ call.out.item = "ExtensionResultItem"
           /\ shown = Len(f)

\* C13: a request issued right after another one, before the clock has
\* moved, is answered with a placeholder and issues no network fetch
C13_SecondRequestDebounced ==
    [][(last.op = "on_event" /\ last'.op = "on_event" /\ now' = now)
           => (last'.ip = 0 /\ last'.geocode = 0 /\ last'.weather = <<>>)]_vars

\* C15: convert_temperature with unit f returns C*9/5+32 truncated toward
\* zero, for every input in tenths of a degree from -MaxTemp to MaxTemp (0
\* gives 32, 100 gives 212, 36.9 gives 98); with any other unit it returns
\* the Celsius value truncated toward zero
C15_ConvertTruncates ==
    (call.fn = "convert_temperature" /\ Returned) =>
        LET num == IF call.unit = "f" THEN 9 * call.temp + 1600 ELSE call.temp
            den == IF call.unit = "f" THEN 50 ELSE 10
            n == call.out
        IN  /\ IF num >= 0
               THEN den * n <= num /\ num < den * (n + 1)
               ELSE den * (n - 1) < num /\ num <= den * n
            /\ (call.unit = "f" /\ call.temp = 0) => n = 32
            /\ (call.unit = "f" /\ call.temp = 1000) => n = 212
            /\ (call.unit = "f" /\ call.temp = 369) => n = 98

\* 36.9 degrees Celsius came out as 98 degrees Fahrenheit
C15_Witness ==
    /\ call.fn = "convert_temperature" /\ Returned
    /\ call.unit = "f" /\ call.temp = 369
    /\ call.out = 98

\* C16: once a change of a relevant preference has emptied the cache, the
\* cache never holds an entry computed from the values the preferences had
\* before: every entry is under the current provider and unit, an entry of the
\* automatic location exists only in auto mode, and an entry of the static
\* location only in static mode with a static location set
C16_NoEntryFromOldPreferences ==
    changes >= 1 =>
        \A k \in DOMAIN cache :
            /\ k[2] = Pref(preferences, "provider", "open-meteo")
            /\ k[3] = Pref(preferences, "unit", "c")
            /\ k[1] = "auto" => Pref(preferences, "location_mode", "auto") = "auto"
            /\ k[1] = "static" =>
                   /\ Pref(preferences, "location_mode", "auto") = "static"
                   /\ Truthy(preferences.static_location)

\* C17: an answer of a geolocation service with status 200 and a body that
\* parses but carries no latitude or no longitude is a failure of that
\* service: fetch_location does not return a location built from it
C17_MissingFieldIsFailure ==
    (call.fn = "fetch_location" /\ Returned) =>
        \A i \in 1..3 :
            LET r == call.answers[i]
            IN  (/\ ~r.err /\ r.status = 200 /\ r.json
                 /\ \/ {"lat", "latitude"} \cap DOMAIN r.data = {}
                    \/ {"lon", "longitude"} \cap DOMAIN r.data = {})
                => ~(call.out.contacted = i /\ call.out.geo # Null)

\* C14: once the start-up thread and the foreground requests have stored
\* their entries and all have finished, the cache holds every entry and the
\* file is a well-formed image of the cache, in every interleaving
C14_NoLostUpdate ==
    (bg = <<>> /\ Cardinality(DOMAIN cache) >= 2)
    => (file.exists /\ file.json /\ file.data = cache)

\* C18: the entries of a typed query are never stored under a key that the
\* empty-query requests read (auto or static with the provider and unit),
\* and two distinct matches of one query are stored under distinct keys
C18_KeysSeparateLookups ==
    (last.op = "on_event" /\ last.query # <<>>) =>
        /\ \A i \in DOMAIN last.stored : last.stored[i][1] \notin {"auto", "static"}
        /\ \A i, j \in DOMAIN last.stored :
               last.served[i].geo # last.served[j].geo => last.stored[i] # last.stored[j]

\* C19: the items a typed query returns are in the order in which the
\* geocoder ranked their matches, whatever the order in which the weather
\* fetches completed
C19_ItemsInRankOrder ==
    (last.op = "on_event" /\ last.query # <<>> /\ last.result.kind = "weather") =>
        LET Rank(entry) == CHOOSE r \in DOMAIN call.matches :
                               GeoOf(call.matches[r]) = entry.geo
        IN  \A i, j \in DOMAIN last.served :
                i < j => Rank(last.served[i]) < Rank(last.served[j])

\* C20: every match of the geocoder that carries a latitude in -90..90 and a
\* longitude in -180..180 has weather fetched for it, a latitude or a
\* longitude of exactly 0 included
C20_ZeroCoordinatesAccepted ==
    (last.op = "on_event" /\ last.query # <<>>) =>
        \A r \in DOMAIN call.matches :
            LET m == call.matches[r]
            IN  (/\ r <= 3
                 /\ {"latitude", "longitude"} \subseteq DOMAIN m
                 /\ m.latitude.v \in -90..90 /\ m.longitude.v \in -180..180)
                => \E k \in DOMAIN last.weather :
                       last.weather[k] = [latitude |-> m.latitude, longitude |-> m.longitude]

====
